---- MODULE Spec2Model ----
\* Model of hashiguchi/extract_disagreements.py: the merge of several prediction
\* files on PassengerId, the extraction of the rows on which the files disagree,
\* and the majority vote over the merged rows.
EXTENDS Integers, Sequences, FiniteSets, TLC

\* ---------------------------------------------------------------- bounds

\* At most MaxFiles entries in CSV_FILES, ids 1..MaxId, at most MaxRows rows a file.
MaxFiles == 3
MaxId == 2
MaxRows == 2

Files == 1..MaxFiles
Ids == 1..MaxId

\* One line of an input file: PassengerId, Transported.
Rows == [id : Ids, val : BOOLEAN]

\* The contents of an input file: any lines, in any order, ids possibly repeated.
Tables == UNION {[1..k -> Rows] : k \in 0..MaxRows}

\* A function's value that is a frame or None.
None == [some |-> FALSE, rows |-> <<>>]

DataFrame(rows) == [some |-> TRUE, rows |-> rows]

\* ---------------------------------------------------------------- state

VARIABLES
    CSV_FILES,                \* the configured list of files
    CREATE_FINAL_SUBMISSION,  \* the configured flag
    exists,                   \* os.path.exists of each file
    contents,                 \* the lines of each file that exists
    entry,                    \* the function that was called
    pc,                       \* the position in the program
    csv_files,                \* the list the functions work on
    rest,                     \* the files the join loop has still to join
    merged_df,                \* extract_disagreements: merged_df
    disagreements_df,         \* extract_disagreements: its result
    final_df,                 \* create_ensemble_prediction: final_df
    result_df,                \* create_ensemble_prediction: its result
    dis_out,                  \* the disagreements file, once written
    final_out,                \* final_submission.csv, once written
    reads,                    \* pd.read_csv calls, by function and file
    writes,                   \* to_csv calls, by output
    calls,                    \* calls, by function
    warned_missing,           \* the files main warned about
    console,                  \* the kinds of message printed
    exit_status               \* the status of sys.exit, 0 at the end of main

vars == <<CSV_FILES, CREATE_FINAL_SUBMISSION, exists, contents, entry, pc,
          csv_files, rest, merged_df, disagreements_df, final_df, result_df,
          dis_out, final_out, reads, writes, calls, warned_missing, console,
          exit_status>>

config == <<CSV_FILES, CREATE_FINAL_SUBMISSION, exists, contents, entry>>

Functions == {"extract_disagreements", "create_ensemble_prediction"}

\* ---------------------------------------------------------------- pure parts

\* set_index('PassengerId') and rename of Transported: a one-column frame.
SetIndexRename(table) ==
    [k \in 1..Len(table) |-> [id |-> table[k].id, vals |-> <<table[k].val>>]]

\* The rows of other joined to one row of the calling frame.
RECURSIVE JoinRow(_, _)
JoinRow(l, other) ==
    IF other = <<>> THEN <<>>
    ELSE (IF Head(other).id = l.id
          THEN <<[id |-> l.id, vals |-> l.vals \o Head(other).vals]>>
          ELSE <<>>) \o JoinRow(l, Tail(other))

RECURSIVE InnerJoin(_, _)
InnerJoin(df, other) ==
    IF df = <<>> THEN <<>>
    ELSE JoinRow(Head(df), other) \o InnerJoin(Tail(df), other)

\* how='left': a calling row without a partner is kept, its new column empty.
RECURSIVE LeftJoin(_, _)
LeftJoin(df, other) ==
    IF df = <<>> THEN <<>>
    ELSE (IF JoinRow(Head(df), other) = <<>>
          THEN <<[id |-> Head(df).id, vals |-> Head(df).vals \o <<FALSE>>]>>
          ELSE JoinRow(Head(df), other)) \o LeftJoin(Tail(df), other)

\* df.join(other, how='inner') on the index.
Join(df, other) == InnerJoin(df, other)

\* csv_files[1:], the files the loop joins to the first.
FilesToJoin_All(files) == files

FilesToJoin(files) == Tail(files)

\* nunique of one row over the Transported_ columns.
Nunique(vals) == Cardinality({vals[k] : k \in 1..Len(vals)})

\* nunique(axis=0): per column, taken by position as a mask of the rows.
DisagreementMask_Axis0(df) ==
    [k \in 1..Len(df) |->
        /\ k <= Len(df[1].vals)
        /\ Cardinality({df[j].vals[k] : j \in 1..Len(df)}) > 1]

DisagreementMask_Equal(df) == [k \in 1..Len(df) |-> Nunique(df[k].vals) = 1]

DisagreementMask_AtLeastOne(df) == [k \in 1..Len(df) |-> Nunique(df[k].vals) >= 1]

\* disagreement_mask: nunique(axis=1) > 1, one entry a row.
DisagreementMask(df) == [k \in 1..Len(df) |-> Nunique(df[k].vals) > 1]

RECURSIVE Masked(_, _)
Masked(df, mask) ==
    IF df = <<>> THEN <<>>
    ELSE (IF Head(mask) THEN <<Head(df)>> ELSE <<>>) \o Masked(Tail(df), Tail(mask))

\* merged_df[disagreement_mask]
DisagreementRows(df) == Masked(df, DisagreementMask(df))

\* sum(axis=1): the number of True values of a row.
TrueCount(vals) == Cardinality({k \in 1..Len(vals) : vals[k]})

Majority_Unanimous(vals) == TrueCount(vals) = Len(vals)

\* true_counts > len(transported_cols) / 2
Majority(vals) == 2 * TrueCount(vals) > Len(vals)

\* final_df[['Transported']].reset_index()
VoteRows(df) == [k \in 1..Len(df) |-> [id |-> df[k].id, val |-> Majority(df[k].vals)]]

ShouldWrite_Always(df) == Len(df) >= 0

\* len(disagreements_df) > 0
ShouldWrite(df) == Len(df) > 0

ExistingFiles_All(files) == files

\* main's loop: the files that exist, in the order of the list.
ExistingFiles(files) == SelectSeq(files, LAMBDA f : exists[f])

MissingFiles(files) == SelectSeq(files, LAMBDA f : ~exists[f])

OddCount_Even(files) == Len(files) % 2 = 0

\* main: len(csv_files) % 2 == 1
OddCount(files) == Len(files) % 2 = 1

\* ---------------------------------------------------------------- Init

Init ==
    /\ \E n \in 1..MaxFiles : CSV_FILES = [k \in 1..n |-> k]
    /\ exists \in [Files -> BOOLEAN]
    /\ contents \in [Files -> Tables]
    /\ \A f \in Files : f > Len(CSV_FILES) => ~exists[f]
    /\ \A f \in Files : ~exists[f] => contents[f] = <<>>
    /\ entry \in {"main"} \cup Functions
    /\ CREATE_FINAL_SUBMISSION \in BOOLEAN
    /\ entry # "main" => ~CREATE_FINAL_SUBMISSION
    /\ pc = CASE entry = "main" -> "main"
              [] entry = "extract_disagreements" -> "ext_check"
              [] OTHER -> "ens_check"
    /\ csv_files = CSV_FILES
    /\ rest = <<>>
    /\ merged_df = None
    /\ disagreements_df = None
    /\ final_df = None
    /\ result_df = None
    /\ dis_out = None
    /\ final_out = None
    /\ reads = [fn \in Functions |-> [f \in Files |-> 0]]
    /\ writes = [o \in {"disagreements", "final"} |-> 0]
    /\ calls = [fn \in Functions |-> IF fn = entry THEN 1 ELSE 0]
    /\ warned_missing = <<>>
    /\ console = {}
    /\ exit_status = -1   \* the process has not exited

\* ---------------------------------------------------------------- main

\* main, up to the call of extract_disagreements.
MainCheckFiles ==
    /\ pc = "main"
    /\ warned_missing' = MissingFiles(CSV_FILES)
    /\ IF ExistingFiles(CSV_FILES) = <<>>
       THEN /\ console' = console \cup {"no files"}
            /\ exit_status' = 1
            /\ pc' = "exited"
            /\ UNCHANGED <<csv_files, calls>>
       ELSE /\ csv_files' = ExistingFiles(CSV_FILES)
            /\ calls' = [calls EXCEPT !["extract_disagreements"] = @ + 1]
            /\ pc' = "ext_check"
            /\ UNCHANGED <<console, exit_status>>
    /\ UNCHANGED <<config, rest, merged_df, disagreements_df, final_df, result_df,
                   dis_out, final_out, reads, writes>>

\* Where a function returns to.
ExtractReturn == IF entry = "main" THEN "main_vote" ELSE "returned"

EnsembleReturn == IF entry = "main" THEN "main_finish" ELSE "returned"

\* main, the choice of the vote.
MainVote ==
    /\ pc = "main_vote"
    /\ IF CREATE_FINAL_SUBMISSION
       THEN IF OddCount(csv_files)
            THEN /\ calls' = [calls EXCEPT !["create_ensemble_prediction"] = @ + 1]
                 /\ pc' = "ens_check"
                 /\ UNCHANGED console
            ELSE /\ console' = console \cup {"even count"}
                 /\ pc' = "main_finish"
                 /\ UNCHANGED calls
       ELSE /\ console' = console \cup {"vote disabled"}
            /\ pc' = "main_finish"
            /\ UNCHANGED calls
    /\ UNCHANGED <<config, csv_files, rest, merged_df, disagreements_df, final_df,
                   result_df, dis_out, final_out, reads, writes, warned_missing,
                   exit_status>>

\* main, its last message; the interpreter then exits with status 0.
MainFinish ==
    /\ pc = "main_finish"
    /\ pc' = "done"
    /\ exit_status' = 0
    /\ UNCHANGED <<config, csv_files, rest, merged_df, disagreements_df, final_df,
                   result_df, dis_out, final_out, reads, writes, calls,
                   warned_missing, console>>

\* ---------------------------------------------------------------- extract_disagreements

\* The check that every file exists.
ExtractCheckExists ==
    /\ pc = "ext_check"
    /\ IF \E k \in 1..Len(csv_files) : ~exists[csv_files[k]]
       THEN /\ console' = console \cup {"file not found"}
            /\ pc' = ExtractReturn
       ELSE /\ pc' = "ext_read_first"
            /\ UNCHANGED console
    /\ UNCHANGED <<config, csv_files, rest, merged_df, disagreements_df, final_df,
                   result_df, dis_out, final_out, reads, writes, calls,
                   warned_missing, exit_status>>

\* The first file, read and indexed.
ExtractReadFirst ==
    /\ pc = "ext_read_first"
    /\ reads' = [reads EXCEPT !["extract_disagreements"][csv_files[1]] = @ + 1]
    /\ merged_df' = DataFrame(SetIndexRename(contents[csv_files[1]]))
    /\ rest' = FilesToJoin(csv_files)
    /\ pc' = "ext_join"
    /\ UNCHANGED <<config, csv_files, disagreements_df, final_df, result_df,
                   dis_out, final_out, writes, calls, warned_missing, console,
                   exit_status>>

\* One turn of the loop: the next file, read and joined.
ExtractJoinNext ==
    /\ pc = "ext_join"
    /\ rest # <<>>
    /\ reads' = [reads EXCEPT !["extract_disagreements"][Head(rest)] = @ + 1]
    /\ merged_df' = DataFrame(Join(merged_df.rows, SetIndexRename(contents[Head(rest)])))
    /\ rest' = Tail(rest)
    /\ UNCHANGED <<config, pc, csv_files, disagreements_df, final_df, result_df,
                   dis_out, final_out, writes, calls, warned_missing, console,
                   exit_status>>

\* After the loop: the mask and the rows it keeps.
ExtractFilter ==
    /\ pc = "ext_join"
    /\ rest = <<>>
    /\ disagreements_df' = DataFrame(DisagreementRows(merged_df.rows))
    /\ pc' = "ext_write"
    /\ UNCHANGED <<config, csv_files, rest, merged_df, final_df, result_df,
                   dis_out, final_out, reads, writes, calls, warned_missing,
                   console, exit_status>>

\* The file and the statistics, the agreement rate among them.
ExtractWrite ==
    /\ pc = "ext_write"
    /\ ShouldWrite(disagreements_df.rows)
    /\ dis_out' = disagreements_df
    /\ writes' = [writes EXCEPT !["disagreements"] = @ + 1]
    /\ IF Len(merged_df.rows) = 0
       THEN /\ pc' = "raised"
            /\ console' = console \cup {"ZeroDivisionError"}
       ELSE /\ pc' = ExtractReturn
            /\ console' = console \cup {"statistics"}
    /\ UNCHANGED <<config, csv_files, rest, merged_df, disagreements_df, final_df,
                   result_df, final_out, reads, calls, warned_missing, exit_status>>

\* No row disagrees.
ExtractNoDisagreement ==
    /\ pc = "ext_write"
    /\ ~ShouldWrite(disagreements_df.rows)
    /\ console' = console \cup {"all agree"}
    /\ pc' = ExtractReturn
    /\ UNCHANGED <<config, csv_files, rest, merged_df, disagreements_df, final_df,
                   result_df, dis_out, final_out, reads, writes, calls,
                   warned_missing, exit_status>>

\* ---------------------------------------------------------------- create_ensemble_prediction

\* The refusal of an even number of files.
EnsembleCheckParity ==
    /\ pc = "ens_check"
    /\ IF Len(csv_files) % 2 = 0
       THEN /\ console' = console \cup {"even count"}
            /\ pc' = EnsembleReturn
       ELSE /\ pc' = "ens_read_first"
            /\ UNCHANGED console
    /\ UNCHANGED <<config, csv_files, rest, merged_df, disagreements_df, final_df,
                   result_df, dis_out, final_out, reads, writes, calls,
                   warned_missing, exit_status>>

\* The first file; pd.read_csv raises when it does not exist.
EnsembleReadFirst ==
    /\ pc = "ens_read_first"
    /\ reads' = [reads EXCEPT !["create_ensemble_prediction"][csv_files[1]] = @ + 1]
    /\ IF exists[csv_files[1]]
       THEN /\ final_df' = DataFrame(SetIndexRename(contents[csv_files[1]]))
            /\ rest' = FilesToJoin(csv_files)
            /\ pc' = "ens_join"
            /\ UNCHANGED console
       ELSE /\ pc' = "raised"
            /\ console' = console \cup {"FileNotFoundError"}
            /\ UNCHANGED <<final_df, rest>>
    /\ UNCHANGED <<config, csv_files, merged_df, disagreements_df, result_df,
                   dis_out, final_out, writes, calls, warned_missing, exit_status>>

EnsembleJoinNext ==
    /\ pc = "ens_join"
    /\ rest # <<>>
    /\ reads' = [reads EXCEPT !["create_ensemble_prediction"][Head(rest)] = @ + 1]
    /\ IF exists[Head(rest)]
       THEN /\ final_df' = DataFrame(Join(final_df.rows, SetIndexRename(contents[Head(rest)])))
            /\ rest' = Tail(rest)
            /\ UNCHANGED <<pc, console>>
       ELSE /\ pc' = "raised"
            /\ console' = console \cup {"FileNotFoundError"}
            /\ UNCHANGED <<final_df, rest>>
    /\ UNCHANGED <<config, csv_files, merged_df, disagreements_df, result_df,
                   dis_out, final_out, writes, calls, warned_missing, exit_status>>

\* After the loop: the vote of every row, written to final_submission.csv.
EnsembleVote ==
    /\ pc = "ens_join"
    /\ rest = <<>>
    /\ result_df' = DataFrame(VoteRows(final_df.rows))
    /\ final_out' = DataFrame(VoteRows(final_df.rows))
    /\ writes' = [writes EXCEPT !["final"] = @ + 1]
    /\ console' = console \cup {"vote totals"}
    /\ pc' = EnsembleReturn
    /\ UNCHANGED <<config, csv_files, rest, merged_df, disagreements_df, final_df,
                   dis_out, reads, calls, warned_missing, exit_status>>

\* ---------------------------------------------------------------- specification

Next ==
    \/ MainCheckFiles
    \/ MainVote
    \/ MainFinish
    \/ ExtractCheckExists
    \/ ExtractReadFirst
    \/ ExtractJoinNext
    \/ ExtractFilter
    \/ ExtractWrite
    \/ ExtractNoDisagreement
    \/ EnsembleCheckParity
    \/ EnsembleReadFirst
    \/ EnsembleJoinNext
    \/ EnsembleVote

Spec == Init /\ [][Next]_vars

\* ---------------------------------------------------------------- properties

Seq2Set(s) == {s[k] : k \in 1..Len(s)}

IdSet(rows) == {rows[k].id : k \in 1..Len(rows)}

UniqueIds(rows) == \A j, k \in 1..Len(rows) : j # k => rows[j].id # rows[k].id

Increasing(s) == \A j, k \in 1..Len(s) : j < k => s[j] < s[k]

\* The files extract_disagreements has merged so far.
ExtractJoined == IF pc = "ext_join" THEN Len(csv_files) - Len(rest) ELSE Len(csv_files)

AllInputsUnique == \A k \in 1..Len(csv_files) : UniqueIds(contents[csv_files[k]])

NotAllEqual(vals) == \E j, k \in 1..Len(vals) : vals[j] # vals[k]

Trues(vals) == Cardinality({j \in 1..Len(vals) : vals[j] = TRUE})

\* C1: when every input table has unique ids, the ids of the merged table of
\* extract_disagreements are exactly the ids that occur in every table merged so
\* far (in all N tables once the loop has ended), each of them once.
InnerJoinIsIntersection ==
    (merged_df.some /\ AllInputsUnique) =>
        /\ IdSet(merged_df.rows) =
               {i \in Ids : \A k \in 1..ExtractJoined : i \in IdSet(contents[csv_files[k]])}
        /\ UniqueIds(merged_df.rows)
        /\ \A k \in 1..Len(merged_df.rows) : Len(merged_df.rows[k].vals) = ExtractJoined

\* C1 witness: three tables with unique ids are merged, one id is common to all
\* three and another id is dropped because one table lacks it.
InnerJoinWitness ==
    /\ pc = "ext_write"
    /\ Len(csv_files) = 3
    /\ AllInputsUnique
    /\ IdSet(merged_df.rows) = {1}
    /\ IdSet(contents[1]) = {1, 2}
    /\ IdSet(contents[2]) = {1}
    /\ IdSet(contents[3]) = {1, 2}

\* C2: the rows extract_disagreements returns are the merged rows whose source
\* values are not all equal, in the merged order and with one value per source;
\* no merged row whose values are all equal is among them.
DisagreementsExact ==
    disagreements_df.some =>
        /\ disagreements_df.rows = SelectSeq(merged_df.rows, LAMBDA r : NotAllEqual(r.vals))
        /\ \A r \in Seq2Set(disagreements_df.rows) : Len(r.vals) = Len(csv_files)
        /\ \A r \in Seq2Set(merged_df.rows) :
               (\A j, k \in 1..Len(r.vals) : r.vals[j] = r.vals[k])
                   => r \notin Seq2Set(disagreements_df.rows)

\* C2 witness: a merged table of two sources with a row that disagrees and a row
\* that agrees; only the first is returned.
DisagreementsWitness ==
    /\ disagreements_df.some
    /\ Len(csv_files) = 2
    /\ Len(merged_df.rows) = 2
    /\ Len(disagreements_df.rows) = 1
    /\ \E r \in Seq2Set(merged_df.rows) : r.vals[1] = r.vals[2]

\* C3: create_ensemble_prediction produces a result only for an odd number n of
\* sources; the result has one row for every row of the merged table, in main the
\* very table of the disagreement extraction, and a row's decision is True iff
\* more than n/2 of its n values are True; the True-count is never n/2.
MajorityVoteCorrect ==
    result_df.some =>
        /\ Len(csv_files) % 2 = 1
        /\ final_out = result_df
        /\ Len(result_df.rows) = Len(final_df.rows)
        /\ entry = "main" => final_df = merged_df
        /\ \A k \in 1..Len(result_df.rows) :
               /\ result_df.rows[k].id = final_df.rows[k].id
               /\ Len(final_df.rows[k].vals) = Len(csv_files)
               /\ result_df.rows[k].val <=> (2 * Trues(final_df.rows[k].vals) > Len(csv_files))
               /\ 2 * Trues(final_df.rows[k].vals) # Len(csv_files)

\* C3 witness: main has voted over three sources; a row with two True values of
\* three is decided True, and a row on which all sources agree is in the result.
MajorityVoteWitness ==
    /\ entry = "main"
    /\ result_df.some
    /\ Len(csv_files) = 3
    /\ Len(result_df.rows) = 2
    /\ \E k \in 1..2 : Trues(final_df.rows[k].vals) = 2 /\ result_df.rows[k].val
    /\ \E k \in 1..2 : Trues(final_df.rows[k].vals) = 0 /\ ~result_df.rows[k].val
    /\ Len(disagreements_df.rows) = 1

VoteEnabled == CREATE_FINAL_SUBMISSION /\ Len(csv_files) % 2 = 1

\* C4: at the end of main final_submission.csv has been produced iff the flag is
\* set and the number of files processed is odd; an even number with the flag set
\* is reported; and when the vote is not taken the step after the extraction goes
\* straight to the end of main and changes nothing the extraction produced.
VoteIffEnabledAndOdd ==
    /\ []((entry = "main" /\ pc \in {"main_finish", "done"}) =>
             /\ final_out.some <=> VoteEnabled
             /\ (CREATE_FINAL_SUBMISSION /\ Len(csv_files) % 2 = 0)
                    => "even count" \in console)
    /\ [][(pc = "main_vote" /\ ~VoteEnabled) =>
             /\ pc' = "main_finish"
             /\ UNCHANGED <<merged_df, disagreements_df, dis_out, final_out,
                            reads, writes, calls>>]_vars

\* C4 witness: main ends with the flag set and two files processed: no vote, the
\* warning printed, the disagreements file written.
VoteSkippedWitness ==
    /\ entry = "main"
    /\ pc = "done"
    /\ CREATE_FINAL_SUBMISSION
    /\ Len(csv_files) = 2
    /\ "even count" \in console
    /\ dis_out.some
    /\ ~final_out.some

\* C5: main exits with status 1, having read, merged and written nothing, iff
\* none of the configured files exists; otherwise it goes on with the files that
\* exist, in the configured order, has warned about the missing ones, and neither
\* exits with status 1 nor raises.
MissingFilesHandled ==
    entry = "main" =>
        /\ pc # "raised"
        /\ pc = "exited" =>
               /\ exit_status = 1
               /\ \A k \in 1..Len(CSV_FILES) : ~exists[CSV_FILES[k]]
               /\ ~merged_df.some /\ ~final_df.some /\ ~dis_out.some /\ ~final_out.some
               /\ \A fn \in Functions : calls[fn] = 0 /\ \A f \in Files : reads[fn][f] = 0
        /\ (pc # "main" /\ \A k \in 1..Len(CSV_FILES) : ~exists[CSV_FILES[k]])
               => pc = "exited"
        /\ pc \notin {"main", "exited"} =>
               /\ exit_status # 1
               /\ Increasing(csv_files)
               /\ Seq2Set(csv_files) = {f \in Seq2Set(CSV_FILES) : exists[f]}
               /\ Increasing(warned_missing)
               /\ Seq2Set(warned_missing) = {f \in Seq2Set(CSV_FILES) : ~exists[f]}

\* C5 witness: of three configured files the second is missing; main has ended
\* normally with the first and the third.
MissingFilesWitness ==
    /\ entry = "main"
    /\ pc = "done"
    /\ exit_status = 0
    /\ Len(CSV_FILES) = 3
    /\ csv_files = <<1, 3>>
    /\ warned_missing = <<2>>
    /\ merged_df.rows # <<>>

BadInput ==
    \E k \in 1..Len(csv_files) :
        ~exists[csv_files[k]] \/ ~UniqueIds(contents[csv_files[k]])

\* C6: if an input given to the merge is absent or holds an id more than once,
\* the merge fails: no function completes its merge and nothing is written.
MergerFailsOnBadInput ==
    BadInput =>
        /\ pc # "ext_write"
        /\ ~disagreements_df.some
        /\ ~result_df.some
        /\ ~dis_out.some
        /\ ~final_out.some

\* C7: the disagreement filter applied to its own result returns that result.
FilterIdempotent ==
    disagreements_df.some =>
        DisagreementRows(disagreements_df.rows) = disagreements_df.rows

\* C7 witness: the filter has kept two rows of a merged table and dropped others.
FilterIdempotentWitness ==
    /\ disagreements_df.some
    /\ Len(disagreements_df.rows) = 2
    /\ Len(merged_df.rows) > 2

\* C8: with one source processed, extract_disagreements returns no row and
\* writes no file.
SingleSourceNoDisagreement ==
    (Len(csv_files) = 1 /\ disagreements_df.some) =>
        /\ disagreements_df.rows = <<>>
        /\ ~dis_out.some
        /\ writes["disagreements"] = 0

\* C8 witness: extract_disagreements has returned for one table of two rows with
\* different values.
SingleSourceWitness ==
    /\ Len(csv_files) = 1
    /\ disagreements_df.some
    /\ pc \in {"returned", "done"}
    /\ Len(merged_df.rows) = 2
    /\ merged_df.rows[1].vals # merged_df.rows[2].vals

WriteIffDisagreement ==
    /\ "ZeroDivisionError" \notin console
    /\ dis_out.some =>
           /\ dis_out = disagreements_df
           /\ Len(disagreements_df.rows) > 0
           /\ writes["disagreements"] = 1
    /\ (disagreements_df.some /\ pc # "ext_write") =>
           /\ dis_out.some <=> Len(disagreements_df.rows) > 0
           /\ merged_df.rows = <<>> =>
                  /\ disagreements_df.rows = <<>>
                  /\ writes["disagreements"] = 0
                  /\ pc # "raised"

\* C10 witness: two non-empty tables without a common id; extract_disagreements
\* has returned an empty frame and written nothing.
EmptyJoinWitness ==
    /\ entry = "extract_disagreements"
    /\ pc = "returned"
    /\ Len(csv_files) = 2
    /\ contents[1] # <<>>
    /\ contents[2] # <<>>
    /\ merged_df = DataFrame(<<>>)
    /\ disagreements_df = DataFrame(<<>>)
    /\ ~dis_out.some

====
